---- MODULE Spec2Model ----
(***************************************************************************)
(* A model of the pinocchio record program: the instruction codec          *)
(* (src/src/instruction.rs), the record header (src/src/state.rs) and the  *)
(* processor (src/src/processor.rs).                                       *)
(*                                                                         *)
(* Unsigned machine integers (u64, u32, usize) are kept at their width as  *)
(* sequences of base-256 digits, most significant digit first: a u64 is 8  *)
(* digits, a u32 is 4.  Byte buffers are sequences of bytes in memory      *)
(* order.  usize is 64 bits wide (the SBF target and the test host).       *)
(***************************************************************************)
EXTENDS Integers, Sequences, FiniteSets, TLC

\* ------------------------------------------------------------------ bounds
\* Longest data of a Write instruction the model enumerates.
MaxData == 2
\* Longest payload (buffer length - 33) of the record cell the model enumerates.
MaxPayload == 2
\* Successful Initialize instructions counted on one cell before the count
\* stops.
MaxInits == 2

\* --------------------------------------------------------- program constants
U32_BYTES == 4
U64_BYTES == 8
CURRENT_VERSION == 1
WRITABLE_START_INDEX == 33
PUBKEY_BYTES == 32
\* The host's limit on the growth of an account buffer in one realloc.
MAX_PERMITTED_DATA_INCREASE == 10240

\* ------------------------------------------------------- machine integers
\* n (a small natural) as w base-256 digits, truncated to the width (`as u32`).
RECURSIVE NatDigits(_, _)
NatDigits(n, w) ==
    IF w = 0 THEN << >> ELSE Append(NatDigits(n \div 256, w - 1), n % 256)

\* Whether the digits d hold a value below 2^24, and that value.
IsSmall(d) == \A i \in 1..Len(d) : i <= Len(d) - 3 => d[i] = 0

ToNat(d) ==
    LET n == Len(d)
        at(i) == IF i >= 1 THEN d[i] ELSE 0
    IN  at(n - 2) * 65536 + at(n - 1) * 256 + at(n)

\* The largest value of w digits (u64::MAX for w = 8).
MaxNum(w) == [i \in 1..w |-> 255]

\* a + b + c of two equally long digit sequences, one digit longer than they
\* are: the first digit of the result is the carry out.
RECURSIVE WideAdd(_, _, _)
WideAdd(a, b, c) ==
    IF a = << >> THEN << c >>
    ELSE LET n == Len(a)
             s == a[n] + b[n] + c
         IN  Append(WideAdd(SubSeq(a, 1, n - 1), SubSeq(b, 1, n - 1), s \div 256),
                    s % 256)

\* a < b for two equally long digit sequences.
RECURSIVE NumLess(_, _)
NumLess(a, b) ==
    IF a = << >> THEN FALSE
    ELSE IF Head(a) # Head(b) THEN Head(a) < Head(b)
    ELSE NumLess(Tail(a), Tail(b))

saturating_add_wrapping(a, b) == Tail(WideAdd(a, b, 0))

\* usize::saturating_add
saturating_add(a, b) ==
    LET r == WideAdd(a, b, 0)
    IN  IF Head(r) = 0 THEN Tail(r) ELSE MaxNum(Len(a))

checked_add_wrapping(a, b) == [some |-> TRUE, val |-> Tail(WideAdd(a, b, 0))]

\* u64::checked_add / usize::checked_add
checked_add(a, b) ==
    LET r == WideAdd(a, b, 0)
    IN  IF Head(r) = 0 THEN [some |-> TRUE, val |-> Tail(r)]
        ELSE [some |-> FALSE, val |-> << >>]

Reverse(s) == [i \in 1..Len(s) |-> s[Len(s) + 1 - i]]

\* u64::from_le_bytes / u32::from_le_bytes: the first byte is the least
\* significant digit.
from_le_bytes(bytes) == Reverse(bytes)

\* u64::to_le_bytes / u32::to_le_bytes
to_le_bytes(v) == Reverse(v)

\* `x as usize` of a u64, and `x as usize` of a u32 (zero extension).
AsUsize(v) == [i \in 1..(U64_BYTES - Len(v)) |-> 0] \o v

\* -------------------------------------------------------------- the codec
\* RecordInstruction
Initialize == [tag |-> "Initialize"]
Write(offset, d) == [tag |-> "Write", offset |-> offset, data |-> d]
SetAuthority == [tag |-> "SetAuthority"]
CloseAccount == [tag |-> "CloseAccount"]
Reallocate(data_length) == [tag |-> "Reallocate", data_length |-> data_length]

Ok(v) == [ok |-> TRUE, val |-> v]
Err(e) == [ok |-> FALSE, err |-> e]
\* A Rust panic (slice index out of range, unwrap on None): the program aborts.
Panic == Err("Panic")

\* rest.get(..U64_BYTES).and_then(try_into).map(u64::from_le_bytes)
\*     .ok_or(InvalidInstructionData)
get_u64(rest) ==
    IF Len(rest) < U64_BYTES THEN Err("InvalidInstructionData")
    ELSE Ok(from_le_bytes(SubSeq(rest, 1, U64_BYTES)))

\* The arm `1 =>` of unpack.
unpack_write(rest) ==
    LET offset == get_u64(rest)
    IN  IF ~offset.ok THEN offset
        ELSE LET after == SubSeq(rest, U64_BYTES + 1, Len(rest))
             IN  \* rest[U64_BYTES..].split_at(U32_BYTES) panics when fewer than
                 \* U32_BYTES bytes are left, so the map_err never runs.
                 IF Len(after) < U32_BYTES THEN Panic
                 ELSE LET length == AsUsize(from_le_bytes(SubSeq(after, 1, U32_BYTES)))
                          d == SubSeq(after, U32_BYTES + 1, Len(after))
                      IN  \* &data[..length] panics when length > data.len()
                          IF ~IsSmall(length) \/ ToNat(length) > Len(d)
                          THEN Panic
                          ELSE Ok(Write(offset.val, SubSeq(d, 1, ToNat(length))))

\* The arm `4 =>` of unpack.
unpack_reallocate(rest) ==
    LET data_length == get_u64(rest)
    IN  IF ~data_length.ok THEN data_length
        ELSE Ok(Reallocate(data_length.val))

\* RecordInstruction::unpack
unpack(input) ==
    IF input = << >> THEN Err("InvalidInstructionData")
    ELSE LET tag == Head(input)
             rest == Tail(input)
         IN  CASE tag = 0 -> Ok(Initialize)
               [] tag = 1 -> unpack_write(rest)
               [] tag = 2 -> Ok(SetAuthority)
               [] tag = 3 -> Ok(CloseAccount)
               [] tag = 4 -> unpack_reallocate(rest)
               [] OTHER -> Err("InvalidInstructionData")

pack_write_be(ins) ==
    << 1 >> \o ins.offset \o to_le_bytes(NatDigits(Len(ins.data), U32_BYTES))
            \o ins.data

\* The arm `Self::Write` of pack.
pack_write(ins) ==
    << 1 >> \o to_le_bytes(ins.offset)
            \o to_le_bytes(NatDigits(Len(ins.data), U32_BYTES))
            \o ins.data

\* RecordInstruction::pack
pack(ins) ==
    CASE ins.tag = "Initialize" -> << 0 >>
      [] ins.tag = "Write" -> pack_write(ins)
      [] ins.tag = "SetAuthority" -> << 2 >>
      [] ins.tag = "CloseAccount" -> << 3 >>
      [] ins.tag = "Reallocate" -> << 4 >> \o to_le_bytes(ins.data_length)

\* ------------------------------------------------------------ the accounts
\* The accounts the host passes in: the record cell and two wallets.
Accts == {"rec", "A", "B"}

\* AccountInfo::key(): a 32-byte identity.  A and B differ in the last byte only.
Key(a) ==
    CASE a = "rec" -> [i \in 1..PUBKEY_BYTES |-> 9]
      [] a = "A" -> [i \in 1..PUBKEY_BYTES |-> 1]
      [] a = "B" -> [i \in 1..PUBKEY_BYTES |-> IF i = PUBKEY_BYTES THEN 2 ELSE 1]

\* ProgramError values; RecordError converts to Custom(e as u32).
IncorrectAuthority == "Custom(0)"
Overflow == "Custom(1)"

\* ------------------------------------------------------------- the header
\* RecordData overlaid on the first 33 bytes of the buffer (repr(C), align 1).
HeaderVersion(raw) == raw[1]
HeaderAuthority(raw) == SubSeq(raw, 2, WRITABLE_START_INDEX)

is_initialized_zero(raw) == HeaderVersion(raw) = 0

\* RecordData::is_initialized
is_initialized(raw) == HeaderVersion(raw) = CURRENT_VERSION

\* The header with authority and version set, the rest of the buffer kept.
WithAuthority(raw, key) ==
    [i \in 1..Len(raw) |-> IF 2 <= i /\ i <= WRITABLE_START_INDEX THEN key[i - 1]
                           ELSE raw[i]]
WithVersion(raw, v) == [raw EXCEPT ![1] = v]

\* ---------------------------------------------------------- the processor
check_authority_signer_first(authority_info, expected_authority) ==
    IF ~authority_info.is_signer THEN Err("MissingRequiredSignature")
    ELSE IF expected_authority # authority_info.key THEN Err(IncorrectAuthority)
    ELSE Ok("unit")

check_authority_no_signer(authority_info, expected_authority) ==
    IF expected_authority # authority_info.key THEN Err(IncorrectAuthority)
    ELSE Ok("unit")

check_authority(authority_info, expected_authority) ==
    IF expected_authority # authority_info.key THEN Err(IncorrectAuthority)
    ELSE IF ~authority_info.is_signer THEN Err("MissingRequiredSignature")
    ELSE Ok("unit")

\* The outcome of an instruction: its result and the account state it leaves.
Outcome(res, d, l) == [result |-> res, data |-> d, lamports |-> l]

Gate_authority_first(raw, authority_info) ==
    IF Len(raw) < WRITABLE_START_INDEX THEN Err("InvalidAccountData")
    ELSE LET checked == check_authority(authority_info, HeaderAuthority(raw))
         IN  IF ~checked.ok THEN checked
             ELSE IF ~is_initialized(raw) THEN Err("UninitializedAccount")
             ELSE checked

Gate_initialized_first(raw, authority_info) ==
    IF Len(raw) < 1 THEN Err("InvalidAccountData")
    ELSE IF ~is_initialized(raw) THEN Err("UninitializedAccount")
    ELSE IF Len(raw) < WRITABLE_START_INDEX THEN Err("InvalidAccountData")
    ELSE check_authority(authority_info, HeaderAuthority(raw))

\* The checks the four gated arms share: the buffer holds a header, the
\* header is initialized, check_authority passes.
Gate(raw, authority_info) ==
    IF Len(raw) < WRITABLE_START_INDEX THEN Err("InvalidAccountData")
    ELSE IF ~is_initialized(raw) THEN Err("UninitializedAccount")
    ELSE check_authority(authority_info, HeaderAuthority(raw))

process_initialize_signed(d, l, acc) ==
    LET raw == d[acc.a0]
    IN  IF Len(raw) < WRITABLE_START_INDEX
        THEN Outcome(Err("InvalidAccountData"), d, l)
        ELSE IF is_initialized(raw)
        THEN Outcome(Err("AccountAlreadyInitialized"), d, l)
        ELSE IF ~acc.signer
        THEN Outcome(Err("MissingRequiredSignature"), d, l)
        ELSE Outcome(Ok("unit"),
                     [d EXCEPT ![acc.a0] =
                         WithVersion(WithAuthority(raw, Key(acc.a1)), CURRENT_VERSION)],
                     l)

\* The arm RecordInstruction::Initialize.
process_initialize(d, l, acc) ==
    LET raw == d[acc.a0]
    IN  IF Len(raw) < WRITABLE_START_INDEX
        THEN Outcome(Err("InvalidAccountData"), d, l)
        ELSE IF is_initialized(raw)
        THEN Outcome(Err("AccountAlreadyInitialized"), d, l)
        ELSE Outcome(Ok("unit"),
                     [d EXCEPT ![acc.a0] =
                         WithVersion(WithAuthority(raw, Key(acc.a1)), CURRENT_VERSION)],
                     l)

copy_from_slice_shifted(raw, start, end, src) ==
    [i \in 1..Len(raw) |-> IF start <= i /\ i < end THEN src[i - start + 1]
                           ELSE raw[i]]

copy_from_slice_adding(raw, start, end, src) ==
    [i \in 1..Len(raw) |-> IF start < i /\ i <= end
                           THEN (raw[i] + src[i - start]) % 256
                           ELSE raw[i]]

\* data[start..end].copy_from_slice(src), start and end 0-based.
copy_from_slice(raw, start, end, src) ==
    [i \in 1..Len(raw) |-> IF start < i /\ i <= end THEN src[i - start] ELSE raw[i]]

\* The arm RecordInstruction::Write.
process_write(d, l, acc, ins) ==
    LET raw == d[acc.a0]
        gate == Gate(raw, [key |-> Key(acc.a1), is_signer |-> acc.signer])
        start == saturating_add(NatDigits(WRITABLE_START_INDEX, U64_BYTES),
                                AsUsize(ins.offset))
        end == saturating_add(start, NatDigits(Len(ins.data), U64_BYTES))
    IN  IF ~gate.ok THEN Outcome(gate, d, l)
        ELSE IF NumLess(NatDigits(Len(raw), U64_BYTES), end)
        THEN Outcome(Err("AccountDataTooSmall"), d, l)
        ELSE IF NumLess(end, start) THEN Outcome(Panic, d, l)
        ELSE Outcome(Ok("unit"),
                     [d EXCEPT ![acc.a0] =
                         copy_from_slice(raw, ToNat(start), ToNat(end), ins.data)],
                     l)

process_set_authority_self(d, l, acc) ==
    LET raw == d[acc.a0]
        gate == Gate(raw, [key |-> Key(acc.a1), is_signer |-> acc.signer])
    IN  IF ~gate.ok THEN Outcome(gate, d, l)
        ELSE Outcome(Ok("unit"),
                     [d EXCEPT ![acc.a0] = WithAuthority(raw, Key(acc.a1))], l)

\* The arm RecordInstruction::SetAuthority.
process_set_authority(d, l, acc) ==
    LET raw == d[acc.a0]
        gate == Gate(raw, [key |-> Key(acc.a1), is_signer |-> acc.signer])
    IN  IF ~gate.ok THEN Outcome(gate, d, l)
        ELSE Outcome(Ok("unit"),
                     [d EXCEPT ![acc.a0] = WithAuthority(raw, Key(acc.a2))], l)

process_close_account_clears_version(d, l, acc) ==
    LET raw == d[acc.a0]
        gate == Gate(raw, [key |-> Key(acc.a1), is_signer |-> acc.signer])
        sum == checked_add(l[acc.a2], l[acc.a0])
    IN  IF ~gate.ok THEN Outcome(gate, d, l)
        ELSE IF ~sum.some THEN Outcome(Err(Overflow), d, l)
        ELSE Outcome(Ok("unit"), [d EXCEPT ![acc.a0] = WithVersion(raw, 0)],
                     [[l EXCEPT ![acc.a2] = sum.val]
                         EXCEPT ![acc.a0] = NatDigits(0, U64_BYTES)])

process_close_account_drain_first(d, l, acc) ==
    LET raw == d[acc.a0]
        gate == Gate(raw, [key |-> Key(acc.a1), is_signer |-> acc.signer])
        sum == checked_add(l[acc.a2], l[acc.a0])
        drained == [l EXCEPT ![acc.a0] = NatDigits(0, U64_BYTES)]
    IN  IF ~gate.ok THEN Outcome(gate, d, l)
        ELSE IF ~sum.some THEN Outcome(Err(Overflow), d, drained)
        ELSE Outcome(Ok("unit"), d, [drained EXCEPT ![acc.a2] = sum.val])

\* The arm RecordInstruction::CloseAccount.
process_close_account(d, l, acc) ==
    LET raw == d[acc.a0]
        gate == Gate(raw, [key |-> Key(acc.a1), is_signer |-> acc.signer])
        destination_starting_lamports == l[acc.a2]
        data_lamports == l[acc.a0]
        sum == checked_add(destination_starting_lamports, data_lamports)
    IN  IF ~gate.ok THEN Outcome(gate, d, l)
        ELSE IF ~sum.some THEN Outcome(Err(Overflow), d, l)
        ELSE Outcome(Ok("unit"), d,
                     [[l EXCEPT ![acc.a2] = sum.val]
                         EXCEPT ![acc.a0] = NatDigits(0, U64_BYTES)])

\* AccountInfo::realloc(new_len, false): the host refuses a growth beyond
\* MAX_PERMITTED_DATA_INCREASE; the added bytes are not zero-filled, so they
\* are whatever `fill` holds.
realloc(raw, new_len, fill) ==
    IF ~IsSmall(new_len)
       \/ ToNat(new_len) - Len(raw) > MAX_PERMITTED_DATA_INCREASE
    THEN Err("InvalidRealloc")
    ELSE Ok([i \in 1..ToNat(new_len) |->
                IF i <= Len(raw) THEN raw[i] ELSE fill[i - Len(raw)]])

process_reallocate_no_header(d, l, acc, ins, fill) ==
    LET raw == d[acc.a0]
        gate == Gate(raw, [key |-> Key(acc.a1), is_signer |-> acc.signer])
        needed_account_length ==
            checked_add(NatDigits(0, U64_BYTES), AsUsize(ins.data_length))
        grown == realloc(raw, needed_account_length.val, fill)
    IN  IF ~gate.ok THEN Outcome(gate, d, l)
        ELSE IF ~needed_account_length.some THEN Outcome(Panic, d, l)
        ELSE IF ~NumLess(NatDigits(Len(raw), U64_BYTES), needed_account_length.val)
        THEN Outcome(Ok("unit"), d, l)
        ELSE IF ~grown.ok THEN Outcome(grown, d, l)
        ELSE Outcome(Ok("unit"), [d EXCEPT ![acc.a0] = grown.val], l)

process_reallocate_always(d, l, acc, ins, fill) ==
    LET raw == d[acc.a0]
        gate == Gate(raw, [key |-> Key(acc.a1), is_signer |-> acc.signer])
        needed_account_length ==
            checked_add(NatDigits(WRITABLE_START_INDEX, U64_BYTES),
                        AsUsize(ins.data_length))
        grown == realloc(raw, needed_account_length.val, fill)
    IN  IF ~gate.ok THEN Outcome(gate, d, l)
        ELSE IF ~needed_account_length.some THEN Outcome(Panic, d, l)
        ELSE IF ~grown.ok THEN Outcome(grown, d, l)
        ELSE Outcome(Ok("unit"), [d EXCEPT ![acc.a0] = grown.val], l)

\* The arm RecordInstruction::Reallocate.
process_reallocate(d, l, acc, ins, fill) ==
    LET raw == d[acc.a0]
        gate == Gate(raw, [key |-> Key(acc.a1), is_signer |-> acc.signer])
        \* usize::try_from(u64) cannot fail where usize is 64 bits wide
        needed_account_length ==
            checked_add(NatDigits(WRITABLE_START_INDEX, U64_BYTES),
                        AsUsize(ins.data_length))
        grown == realloc(raw, needed_account_length.val, fill)
    IN  IF ~gate.ok THEN Outcome(gate, d, l)
        ELSE IF ~needed_account_length.some THEN Outcome(Panic, d, l)
        ELSE IF ~NumLess(NatDigits(Len(raw), U64_BYTES), needed_account_length.val)
        THEN Outcome(Ok("unit"), d, l)
        ELSE IF ~grown.ok THEN Outcome(grown, d, l)
        ELSE Outcome(Ok("unit"), [d EXCEPT ![acc.a0] = grown.val], l)

\* process_instruction: acc holds the accounts in positional order (a0 the
\* record cell, a1 the authority with its signer flag, a2 the third account).
process_instruction(d, l, acc, input, fill) ==
    LET instruction == unpack(input)
    IN  IF ~instruction.ok THEN Outcome(instruction, d, l)
        ELSE LET ins == instruction.val
             IN  CASE ins.tag = "Initialize" -> process_initialize(d, l, acc)
                   [] ins.tag = "Write" -> process_write(d, l, acc, ins)
                   [] ins.tag = "SetAuthority" -> process_set_authority(d, l, acc)
                   [] ins.tag = "CloseAccount" -> process_close_account(d, l, acc)
                   [] ins.tag = "Reallocate" ->
                        process_reallocate(d, l, acc, ins, fill)

\* ----------------------------------------------------- the enumerated inputs
\* u64::MAX - n, for n below 256.
MaxMinus(n) == [MaxNum(U64_BYTES) EXCEPT ![U64_BYTES] = 255 - n]
\* 2^32: the least u64 that a 32-bit usize would truncate.
TwoPow32 == [i \in 1..U64_BYTES |-> IF i = U64_BYTES - U32_BYTES THEN 1 ELSE 0]

\* u64 values at the edges of the saturating and checked additions with 33:
\* 33 + (MAX - 33) = MAX, 33 + (MAX - 32) = 2^64, 33 + (MAX - 31) = 2^64 + 1.
HugeU64 == {MaxNum(U64_BYTES), MaxMinus(WRITABLE_START_INDEX),
            MaxMinus(WRITABLE_START_INDEX - 1), MaxMinus(WRITABLE_START_INDEX - 2),
            TwoPow32}

Offsets == {NatDigits(n, U64_BYTES) : n \in 0..MaxPayload} \cup HugeU64
DataLengths == {NatDigits(n, U64_BYTES) : n \in 0..MaxPayload} \cup HugeU64
\* The data of a Write: the first n bytes 111, 222, 77, ...
Datas == {[i \in 1..n |-> (111 * i) % 256] : n \in 0..MaxData}
\* The values a byte added by realloc may hold.
FillVals == {0, 255}
Fills == [1..MaxPayload -> FillVals]

Instructions ==
    {Initialize, SetAuthority, CloseAccount}
    \cup {Write(o, d) : o \in Offsets, d \in Datas}
    \cup {Reallocate(n) : n \in DataLengths}

StrictPrefixes(b) == {SubSeq(b, 1, k) : k \in 0..(Len(b) - 1)}

\* A Write whose length field declares `declared` (a u32) over the data d.
WriteDeclaring(o, declared, d) ==
    << 1 >> \o to_le_bytes(o) \o to_le_bytes(declared) \o d

\* Length fields that differ from the length of the data they precede.
Declared(d) ==
    {NatDigits(Len(d) + 1, U32_BYTES), MaxNum(U32_BYTES),
     [i \in 1..U32_BYTES |-> IF i = 1 THEN 1 ELSE 0]}
    \cup (IF Len(d) > 0 THEN {NatDigits(Len(d) - 1, U32_BYTES)} ELSE {})

\* Instruction buffers as a caller may send them: truncated encodings,
\* unknown tags, and Writes with a length field that does not match.
RawInputs ==
    UNION {StrictPrefixes(pack(x)) : x \in Instructions}
    \cup {<< t >> \o body : t \in {5, 6, 255}, body \in {<< >>, << 0 >>}}
    \cup {WriteDeclaring(o, n, d) : o \in {NatDigits(0, U64_BYTES), TwoPow32},
                                   n \in UNION {Declared(dd) : dd \in Datas},
                                   d \in Datas}

\* The raw buffers the processor is stepped with besides well-formed ones.
ProcessorRawInputs ==
    StrictPrefixes(pack(Write(NatDigits(1, U64_BYTES),
                              [i \in 1..MaxData |-> (111 * i) % 256])))
    \cup StrictPrefixes(pack(Reallocate(NatDigits(1, U64_BYTES))))
    \cup {<< 5 >>, << 255, 0 >>}

\* ---------------------------------------------------------------- the state
VARIABLES
    data,       \* account -> its byte buffer
    lamports,   \* account -> its balance (a u64)
    last,       \* the last instruction processed: its input, accounts, result
                \* and the account state it started from
    inits,      \* history: how many Initialize instructions have succeeded
    cpc,        \* codec run: "off", "value", "bytes" or "done"
    cval,       \* codec run: the instruction value packed, or NoValue
    cbuf,       \* codec run: the buffer unpacked
    cout        \* codec run: the result of unpack

vars == << data, lamports, last, inits, cpc, cval, cbuf, cout >>

NoValue == [tag |-> "None"]
NoAccounts == [a0 |-> "rec", a1 |-> "A", signer |-> FALSE, a2 |-> "none"]

Blank(d, l) ==
    [stepped |-> FALSE, input |-> << >>, acc |-> NoAccounts,
     result |-> Err("None"), data |-> d, lamports |-> l]

Zeros(n) == [i \in 1..n |-> 0]

\* The cell as the host creates it: a zero-filled buffer of the length asked
\* for, possibly shorter than a header; or a buffer left by another version of
\* the program (version byte 2); or an account too short for a header whose
\* first byte happens to be CURRENT_VERSION (the program takes whatever account
\* it is passed as account[0]).  The cell holds 5 lamports, wallet A none and
\* wallet B u64::MAX.
InitBuffers ==
    {Zeros(n) : n \in {0, WRITABLE_START_INDEX - 1}
                      \cup {WRITABLE_START_INDEX + k : k \in 0..MaxPayload}}
    \cup {WithVersion(Zeros(WRITABLE_START_INDEX + k), CURRENT_VERSION + 1) :
            k \in 0..MaxPayload}
    \cup {WithVersion(Zeros(WRITABLE_START_INDEX - 1), CURRENT_VERSION)}

InitLamports ==
    [a \in Accts |-> CASE a = "rec" -> NatDigits(5, U64_BYTES)
                       [] a = "A" -> NatDigits(0, U64_BYTES)
                       [] a = "B" -> MaxNum(U64_BYTES)]

CodecOff == cpc = "off" /\ cval = NoValue /\ cbuf = << >> /\ cout = Err("None")

Init ==
    /\ \E b \in InitBuffers :
          data = [a \in Accts |-> IF a = "rec" THEN b ELSE << >>]
    /\ lamports = InitLamports
    /\ last = Blank(data, lamports)
    /\ inits = 0
    /\ CodecOff

\* The host is between instructions: the last result has been collected.
Idle == ~last.stepped

\* One call of the entrypoint: process_instruction on the current accounts.
Step(acc, input, fill) ==
    LET out == process_instruction(data, lamports, acc, input, fill)
    IN  /\ data' = out.data
        /\ lamports' = out.lamports
        /\ last' = [stepped |-> TRUE, input |-> input, acc |-> acc,
                    result |-> out.result, data |-> data, lamports |-> lamports]
        /\ inits' = IF /\ unpack(input) = Ok(Initialize)
                        /\ out.result.ok
                        /\ inits < MaxInits
                     THEN inits + 1
                     ELSE inits
        /\ UNCHANGED << cpc, cval, cbuf, cout >>

\* The account list of a call.  Every call passes the accounts its instruction
\* names (get_account_info! finds each of them): the record cell first, then
\* the authority with its signer flag, then the third account where the
\* instruction has one.
Accounts2(a1, sg) == [a0 |-> "rec", a1 |-> a1, signer |-> sg, a2 |-> "none"]
Accounts3(a1, sg, a2) == [a0 |-> "rec", a1 |-> a1, signer |-> sg, a2 |-> a2]
NoFill == << >>

DoInitialize ==
    /\ Idle
    /\ \E a1 \in Accts, sg \in BOOLEAN :
            Step(Accounts2(a1, sg), pack(Initialize), NoFill)

DoWrite ==
    /\ Idle
    /\ \E a1 \in Accts, sg \in BOOLEAN, o \in Offsets, d \in Datas :
            Step(Accounts2(a1, sg), pack(Write(o, d)), NoFill)

DoSetAuthority ==
    /\ Idle
    /\ \E a1 \in Accts, sg \in BOOLEAN, a2 \in Accts :
            Step(Accounts3(a1, sg, a2), pack(SetAuthority), NoFill)

DoCloseAccount ==
    /\ Idle
    /\ \E a1 \in Accts, sg \in BOOLEAN, a2 \in Accts :
            Step(Accounts3(a1, sg, a2), pack(CloseAccount), NoFill)

DoReallocate ==
    /\ Idle
    /\ \E a1 \in Accts, sg \in BOOLEAN, n \in DataLengths, fill \in Fills :
            Step(Accounts2(a1, sg), pack(Reallocate(n)), fill)

DoRaw ==
    /\ Idle
    /\ \E input \in ProcessorRawInputs :
            Step(Accounts3("A", TRUE, "B"), input, NoFill)

\* The host collects the result; the next instruction starts from the
\* accounts as the last one left them.
Return ==
    /\ last.stepped
    /\ last' = Blank(data, lamports)
    /\ UNCHANGED << data, lamports, inits, cpc, cval, cbuf, cout >>

Next ==
    \/ DoInitialize
    \/ DoWrite
    \/ DoSetAuthority
    \/ DoCloseAccount
    \/ DoReallocate
    \/ DoRaw
    \/ Return

Spec == Init /\ [][Next]_vars

\* ------------------------------------------------------------ the codec runs
\* A run of the codec alone: either an instruction value is packed and the
\* buffer unpacked, or a raw buffer is unpacked.
CodecInit ==
    /\ data = [a \in Accts |-> << >>]
    /\ lamports = InitLamports
    /\ last = Blank(data, lamports)
    /\ inits = 0
    /\ cout = Err("None")
    /\ \/ cpc = "value" /\ cval \in Instructions /\ cbuf = << >>
       \/ cpc = "bytes" /\ cval = NoValue /\ cbuf \in RawInputs

Pack ==
    /\ cpc = "value"
    /\ cbuf' = pack(cval)
    /\ cpc' = "bytes"
    /\ UNCHANGED << data, lamports, last, inits, cval, cout >>

Unpack ==
    /\ cpc = "bytes"
    /\ cout' = unpack(cbuf)
    /\ cpc' = "done"
    /\ UNCHANGED << data, lamports, last, inits, cval, cbuf >>

CodecNext ==
    \/ Pack
    \/ Unpack

SpecCodec == CodecInit /\ [][CodecNext]_vars

\* ------------------------------------------------------ reading the last step
\* The instruction the last step carried, and what the cell was before it.
LastIns == unpack(last.input)
LastTag == IF LastIns.ok THEN LastIns.val.tag ELSE "Malformed"
GatedTags == {"Write", "SetAuthority", "CloseAccount", "Reallocate"}
Cell == data["rec"]
PreCell == last.data["rec"]
PreInitialized ==
    Len(PreCell) >= WRITABLE_START_INDEX /\ PreCell[1] = CURRENT_VERSION
PreOwner == SubSeq(PreCell, 2, WRITABLE_START_INDEX)
Presented == Key(last.acc.a1)
CellChanged == Cell # PreCell \/ lamports["rec"] # last.lamports["rec"]
Payload(raw) == SubSeq(raw, WRITABLE_START_INDEX + 1, Len(raw))

\* C1: a step that changes an Initialized cell's bytes, buffer length or
\* balance is a successful Write, SetAuthority, CloseAccount or Reallocate
\* presented by account[1] whose identity is the stored owner_identity and
\* whose signer flag is set.
C1_OnlyOwnerChanges ==
    (last.stepped /\ PreInitialized /\ CellChanged)
        => /\ last.result.ok
           /\ LastTag \in GatedTags
           /\ Presented = PreOwner
           /\ last.acc.signer

C1_Witness ==
    /\ last.stepped /\ PreInitialized
    /\ LastTag = "Write"
    /\ Cell # PreCell

\* C2: on an Initialized cell a gated operation presented by another identity
\* than the stored owner returns IncorrectAuthority, signed or not and
\* whatever its other arguments; presented by the owner without a signer
\* proof it returns MissingRequiredSignature.
C2_MismatchBeforeSignature ==
    (last.stepped /\ PreInitialized /\ LastTag \in GatedTags)
        => /\ Presented # PreOwner => last.result = Err("Custom(0)")
           /\ (Presented = PreOwner /\ ~last.acc.signer)
                 => last.result = Err("MissingRequiredSignature")

\* An unsigned Write by another identity, its range beyond the buffer.
C2_Witness ==
    /\ last.stepped /\ PreInitialized
    /\ LastTag = "Write"
    /\ LastIns.val.offset = MaxNum(U64_BYTES)
    /\ Presented # PreOwner
    /\ ~last.acc.signer
    /\ last.result = Err("Custom(0)")

\* Whether the buffer b is a Write with both fixed-width fields complete whose
\* length field (bytes 10..13, little-endian) exceeds the bytes after it.
DeclaresTooMuch(b) ==
    /\ Len(b) >= 1 + U64_BYTES + U32_BYTES
    /\ b[1] = 1
    /\ \/ b[13] > 0
       \/ b[10] + 256 * b[11] + 65536 * b[12] > Len(b) - (1 + U64_BYTES + U32_BYTES)

\* C3: unpack of a Write whose declared length exceeds the remaining bytes
\* returns InvalidInstructionData.
C3_DeclaredLengthRejected ==
    (cpc = "done" /\ DeclaresTooMuch(cbuf))
        => cout = Err("InvalidInstructionData")

\* Whether the buffer b is empty, has an unknown tag, or ends inside a
\* fixed-width field.
Truncated(b) ==
    \/ b = << >>
    \/ b[1] \notin 0..4
    \/ b[1] = 1 /\ Len(b) - 1 < U64_BYTES + U32_BYTES
    \/ b[1] = 4 /\ Len(b) - 1 < U64_BYTES

\* C4: unpack returns InvalidInstructionData for every buffer that is empty,
\* has a tag outside 0..4, or has a truncated fixed-width field.
C4_TruncatedRejected ==
    (cpc = "done" /\ Truncated(cbuf)) => cout = Err("InvalidInstructionData")

\* C5: unpack(pack(x)) succeeds and equals x for every instruction value x.
C5_RoundTrip ==
    (cpc = "done" /\ cval # NoValue) => cout = [ok |-> TRUE, val |-> cval]

\* A Write of the longest data at an offset with every byte set.
C5_Witness ==
    /\ cpc = "done"
    /\ cval.tag = "Write"
    /\ Len(cval.data) = MaxData
    /\ cval.offset = MaxMinus(WRITABLE_START_INDEX)
    /\ cout.ok

\* C6: a step that returns a failure leaves every buffer and every balance
\* as it was.
C6_FailureChangesNothing ==
    (last.stepped /\ ~last.result.ok)
        => data = last.data /\ lamports = last.lamports

\* A CloseAccount by the signed owner that fails on the balance overflow.
C6_Witness ==
    /\ last.stepped
    /\ LastTag = "CloseAccount"
    /\ last.result = Err("Custom(1)")

\* The Write(0, d) that follows, signed by the authority a1.
FollowingWrite(a1, d) ==
    process_instruction(data, lamports, Accounts2(a1, TRUE),
                        pack(Write(NatDigits(0, U64_BYTES), d)), NoFill)

\* C7: Initialize on a cell of at least 33 bytes whose version byte is not
\* CURRENT_VERSION succeeds with or without a signer proof, sets the version
\* byte and the owner_identity (account[1]'s identity), and leaves payload,
\* buffer length and balances alone; a following in-range Write(0, d) signed
\* by that authority succeeds and reads back version, owner and d.
C7_InitializeBootstraps ==
    (last.stepped /\ LastTag = "Initialize"
        /\ Len(PreCell) >= WRITABLE_START_INDEX /\ PreCell[1] # CURRENT_VERSION)
        => /\ last.result.ok
           /\ Cell[1] = CURRENT_VERSION
           /\ SubSeq(Cell, 2, WRITABLE_START_INDEX) = Presented
           /\ Len(Cell) = Len(PreCell)
           /\ Payload(Cell) = Payload(PreCell)
           /\ lamports = last.lamports
           /\ \A d \in Datas :
                 WRITABLE_START_INDEX + Len(d) <= Len(Cell)
                     => LET w == FollowingWrite(last.acc.a1, d)
                        IN  /\ w.result.ok
                            /\ w.data["rec"][1] = CURRENT_VERSION
                            /\ SubSeq(w.data["rec"], 2, WRITABLE_START_INDEX) = Presented
                            /\ SubSeq(w.data["rec"], WRITABLE_START_INDEX + 1,
                                      WRITABLE_START_INDEX + Len(d)) = d

\* An unsigned Initialize of a cell with room for the longest data.
C7_Witness ==
    /\ last.stepped /\ LastTag = "Initialize"
    /\ ~last.acc.signer
    /\ Len(PreCell) >= WRITABLE_START_INDEX
    /\ PreCell[1] # CURRENT_VERSION
    /\ Len(Cell) >= WRITABLE_START_INDEX + MaxData
    /\ last.result.ok

\* C8: Initialize on an Initialized cell fails with AccountAlreadyInitialized
\* for every account[1] and leaves owner_identity and payload untouched.
C8_ReinitializeRejected ==
    (last.stepped /\ LastTag = "Initialize" /\ PreInitialized)
        => /\ last.result = Err("AccountAlreadyInitialized")
           /\ Cell = PreCell

\* A second Initialize presented by another identity than the owner.
C8_Witness ==
    /\ last.stepped /\ LastTag = "Initialize" /\ PreInitialized
    /\ Presented # PreOwner
    /\ Len(Payload(PreCell)) > 0
    /\ Payload(PreCell)[1] # 0

\* C9: a successful Write(offset, d) sets the bytes [33+offset, 33+offset+len(d))
\* to d and leaves every other byte, the buffer length and the balances alone.
C9_WriteFrame ==
    (last.stepped /\ LastTag = "Write" /\ last.result.ok)
        => LET o == LastIns.val.offset
               d == LastIns.val.data
               lo == WRITABLE_START_INDEX + ToNat(o)
           IN  /\ IsSmall(o)
               /\ Len(Cell) = Len(PreCell)
               /\ \A i \in 1..Len(Cell) :
                     Cell[i] = IF lo < i /\ i <= lo + Len(d) THEN d[i - lo]
                               ELSE PreCell[i]
               /\ lamports = last.lamports

\* A one-byte Write at offset 1 of a longer payload.
C9_Witness ==
    /\ last.stepped /\ LastTag = "Write" /\ last.result.ok
    /\ ToNat(LastIns.val.offset) = 1
    /\ Len(LastIns.val.data) = 1
    /\ Cell # PreCell

\* 33 + offset + n as 10 digits, never wrapped.
TrueEnd(offset, n) ==
    WideAdd(WideAdd(NatDigits(WRITABLE_START_INDEX, U64_BYTES), offset, 0),
            NatDigits(n, U64_BYTES + 1), 0)

\* C10: a Write by the signed owner whose true 33 + offset + len(data)
\* exceeds the buffer length fails with AccountDataTooSmall and changes
\* nothing, for every 64-bit offset.
C10_NoWraparound ==
    (last.stepped /\ LastTag = "Write" /\ PreInitialized
        /\ Presented = PreOwner /\ last.acc.signer
        /\ NumLess(NatDigits(Len(PreCell), U64_BYTES + 2),
                   TrueEnd(LastIns.val.offset, Len(LastIns.val.data))))
        => /\ last.result = Err("AccountDataTooSmall")
           /\ data = last.data

\* A Write at offset 2^64 - 33, where 33 + offset is 2^64.
C10_Witness ==
    /\ last.stepped /\ LastTag = "Write" /\ PreInitialized
    /\ Presented = PreOwner /\ last.acc.signer
    /\ LastIns.val.offset = MaxMinus(WRITABLE_START_INDEX - 1)
    /\ last.result = Err("AccountDataTooSmall")


\* C11: a gated operation on a cell of at least 33 bytes whose version byte is
\* not CURRENT_VERSION fails with UninitializedAccount, whoever account[1] is
\* and whether or not it signed, and changes nothing.
C11_UninitializedRejected ==
    (last.stepped /\ LastTag \in GatedTags
        /\ Len(PreCell) >= WRITABLE_START_INDEX /\ PreCell[1] # CURRENT_VERSION)
        => /\ last.result = Err("UninitializedAccount")
           /\ data = last.data
           /\ lamports = last.lamports

\* An unsigned CloseAccount on a cell left with version byte 2: the presented
\* identity differs from the 32 zero bytes in the owner field.
C11_Witness ==
    /\ last.stepped /\ LastTag = "CloseAccount"
    /\ Len(PreCell) >= WRITABLE_START_INDEX
    /\ PreCell[1] = CURRENT_VERSION + 1
    /\ Presented # PreOwner
    /\ ~last.acc.signer
    /\ last.result = Err("UninitializedAccount")

\* C12: after a successful SetAuthority that replaces the owner account[1] by
\* another identity account[2], an in-range Write signed by the old authority
\* fails (IncorrectAuthority) and the same Write signed by the new one succeeds.
C12_AuthorityHandover ==
    (last.stepped /\ LastTag = "SetAuthority" /\ last.result.ok
        /\ Key(last.acc.a1) # Key(last.acc.a2))
        => \A d \in Datas :
              WRITABLE_START_INDEX + Len(d) <= Len(Cell)
                  => /\ FollowingWrite(last.acc.a1, d).result = Err("Custom(0)")
                     /\ FollowingWrite(last.acc.a2, d).result.ok

C12_Witness ==
    /\ last.stepped /\ LastTag = "SetAuthority" /\ last.result.ok
    /\ last.acc.a1 = "A" /\ last.acc.a2 = "B"
    /\ Len(Cell) >= WRITABLE_START_INDEX + MaxData

\* C13: a successful SetAuthority sets owner_identity to account[2]'s identity
\* and leaves the version byte, the payload, the buffer length and every
\* balance as they were.
C13_SetAuthorityFrame ==
    (last.stepped /\ LastTag = "SetAuthority" /\ last.result.ok)
        => /\ SubSeq(Cell, 2, WRITABLE_START_INDEX) = Key(last.acc.a2)
           /\ Cell[1] = PreCell[1]
           /\ Len(Cell) = Len(PreCell)
           /\ Payload(Cell) = Payload(PreCell)
           /\ lamports = last.lamports

\* The owner A hands a cell with a written payload to B.
C13_Witness ==
    /\ last.stepped /\ LastTag = "SetAuthority" /\ last.result.ok
    /\ PreOwner = Key("A") /\ last.acc.a2 = "B"
    /\ Len(Payload(PreCell)) > 0
    /\ Payload(PreCell)[1] # 0


\* The balances before the last step, and their sum with its carry digit.
PreCellBalance == last.lamports["rec"]
PreDestBalance == last.lamports[last.acc.a2]
TrueBalanceSum == WideAdd(PreDestBalance, PreCellBalance, 0)
ZeroBalance == NatDigits(0, U64_BYTES)
BySignedOwner == PreInitialized /\ Presented = PreOwner /\ last.acc.signer

\* C14: after a successful CloseAccount the destination's balance is its
\* previous balance plus the record cell's previous balance, and the record
\* cell's balance is zero.
C14_CloseTransfersAll ==
    (last.stepped /\ LastTag = "CloseAccount" /\ last.result.ok)
        => /\ lamports[last.acc.a2] = Tail(TrueBalanceSum)
           /\ Head(TrueBalanceSum) = 0
           /\ lamports["rec"] = ZeroBalance

\* C15 as stated: a CloseAccount by the signed owner to a destination whose
\* balance is u64::MAX fails with Overflow and leaves the balances unchanged.
C15_MaxDestinationAlwaysOverflows ==
    (last.stepped /\ LastTag = "CloseAccount" /\ BySignedOwner
        /\ PreDestBalance = MaxNum(U64_BYTES))
        => /\ last.result = Err("Custom(1)")
           /\ lamports = last.lamports

\* C15, amended: a CloseAccount by the signed owner fails with Overflow
\* (Custom(1)) and leaves every balance unchanged exactly when the sum of the
\* two balances exceeds u64::MAX, in particular when the destination holds
\* u64::MAX and the record cell's balance is not zero; a CloseAccount that
\* succeeds never had a sum beyond u64::MAX.
C15_OverflowRejected ==
    (last.stepped /\ LastTag = "CloseAccount" /\ BySignedOwner)
        => /\ (PreDestBalance = MaxNum(U64_BYTES) /\ PreCellBalance # ZeroBalance)
                 => Head(TrueBalanceSum) = 1
           /\ Head(TrueBalanceSum) = 1
                 => last.result = Err("Custom(1)") /\ lamports = last.lamports
           /\ Head(TrueBalanceSum) = 0 => last.result.ok

\* The cell's 5 lamports do not fit into wallet B, which holds u64::MAX.
C15_Witness ==
    /\ last.stepped /\ LastTag = "CloseAccount" /\ BySignedOwner
    /\ PreDestBalance = MaxNum(U64_BYTES)
    /\ PreCellBalance # ZeroBalance
    /\ last.result = Err("Custom(1)")

\* The instruction ins processed next, on the accounts as they are now.
Following(acc, ins) ==
    process_instruction(data, lamports, acc, pack(ins), [i \in 1..MaxPayload |-> 0])

\* C16: a successful CloseAccount leaves every byte of the buffer and its
\* length as they were; the cell still reads as Initialized, so an Initialize
\* that follows fails with AccountAlreadyInitialized, and the stored owner can
\* still run Write, SetAuthority, Reallocate and CloseAccount on it.
C16_ClosedCellStaysInitialized ==
    (last.stepped /\ LastTag = "CloseAccount" /\ last.result.ok)
        => /\ Cell = PreCell
           /\ Cell[1] = CURRENT_VERSION
           /\ \A a \in Accts, sg \in BOOLEAN :
                 Following(Accounts2(a, sg), Initialize).result
                     = Err("AccountAlreadyInitialized")
           /\ \A d \in Datas :
                 WRITABLE_START_INDEX + Len(d) <= Len(Cell)
                     => FollowingWrite(last.acc.a1, d).result.ok
           /\ \A a2 \in Accts :
                 /\ Following(Accounts3(last.acc.a1, TRUE, a2), SetAuthority).result.ok
                 /\ Following(Accounts3(last.acc.a1, TRUE, a2), CloseAccount).result.ok
           /\ \A n \in 0..MaxPayload :
                 Following(Accounts2(last.acc.a1, TRUE),
                           Reallocate(NatDigits(n, U64_BYTES))).result.ok

\* The cell's balance has gone to wallet A.
C16_Witness ==
    /\ last.stepped /\ LastTag = "CloseAccount" /\ last.result.ok
    /\ last.acc.a2 = "A"
    /\ PreCellBalance # ZeroBalance
    /\ lamports["rec"] = ZeroBalance

\* C17: a Reallocate by the signed owner whose 33 + data_length does not fit
\* the 64-bit size type returns InvalidArgument and leaves the cell unchanged.
C17_SizeOverflowRejected ==
    (last.stepped /\ LastTag = "Reallocate" /\ BySignedOwner
        /\ Head(WideAdd(NatDigits(WRITABLE_START_INDEX, U64_BYTES),
                        LastIns.val.data_length, 0)) = 1)
        => /\ last.result = Err("InvalidArgument")
           /\ data = last.data
           /\ lamports = last.lamports


\* 33 + data_length of the last Reallocate as 9 digits, never wrapped, and the
\* length of the buffer before it at the same width.
TrueNeeded ==
    WideAdd(NatDigits(WRITABLE_START_INDEX, U64_BYTES), LastIns.val.data_length, 0)
PreLen9 == NatDigits(Len(PreCell), U64_BYTES + 1)

\* The buffer has exactly 33 + data_length bytes and every byte it had before
\* is where it was.
GrownExactly ==
    /\ IsSmall(LastIns.val.data_length)
    /\ Len(Cell) = WRITABLE_START_INDEX + ToNat(LastIns.val.data_length)
    /\ \A i \in 1..Len(PreCell) : Cell[i] = PreCell[i]
    /\ \A a \in Accts \ {"rec"} : data[a] = last.data[a]
    /\ lamports = last.lamports

\* C18 as stated: a Reallocate by the signed owner with 33 + data_length
\* greater than the buffer length grows the buffer to exactly 33 + data_length
\* bytes and leaves the bytes it had and the balances unchanged.
C18_EveryGrowthEnacted ==
    (last.stepped /\ LastTag = "Reallocate" /\ BySignedOwner
        /\ NumLess(PreLen9, TrueNeeded))
        => last.result.ok /\ GrownExactly

\* C18, amended: the same, for a growth the host's resize accepts (at most
\* MAX_PERMITTED_DATA_INCREASE bytes more than the buffer has).
C18_GrowthEnacted ==
    (last.stepped /\ LastTag = "Reallocate" /\ BySignedOwner
        /\ NumLess(PreLen9, TrueNeeded)
        /\ IsSmall(LastIns.val.data_length)
        /\ WRITABLE_START_INDEX + ToNat(LastIns.val.data_length) - Len(PreCell)
              <= MAX_PERMITTED_DATA_INCREASE)
        => last.result.ok /\ GrownExactly

\* A header-only buffer grown by the longest payload, the new bytes not zero.
C18_Witness ==
    /\ last.stepped /\ LastTag = "Reallocate" /\ BySignedOwner
    /\ Len(PreCell) = WRITABLE_START_INDEX
    /\ Len(Cell) = WRITABLE_START_INDEX + MaxPayload
    /\ Cell[Len(Cell)] # 0
    /\ last.result.ok

\* C19: a Reallocate by the signed owner with 33 + data_length at most the
\* buffer length succeeds and changes nothing; and no step of any kind makes
\* the buffer shorter.
C19_NoShrink ==
    /\ (last.stepped /\ LastTag = "Reallocate" /\ BySignedOwner
           /\ ~NumLess(PreLen9, TrueNeeded))
           => /\ last.result.ok
              /\ data = last.data
              /\ lamports = last.lamports
    /\ last.stepped => Len(Cell) >= Len(PreCell)

\* A Reallocate to payload length 0 of a buffer with the longest payload.
C19_Witness ==
    /\ last.stepped /\ LastTag = "Reallocate" /\ BySignedOwner
    /\ Len(PreCell) = WRITABLE_START_INDEX + MaxPayload
    /\ LastIns.val.data_length = ZeroBalance
    /\ last.result.ok

\* C20: every one of the five operations on a cell whose buffer is shorter
\* than 33 bytes fails with InvalidAccountData and changes nothing, whatever
\* the buffer holds and whoever is presented, signed or not.
C20_ShortBufferRejected ==
    (last.stepped /\ LastIns.ok /\ Len(PreCell) < WRITABLE_START_INDEX)
        => /\ last.result = Err("InvalidAccountData")
           /\ data = last.data
           /\ lamports = last.lamports

\* A signed SetAuthority on a 32-byte buffer of zeros.
C20_Witness ==
    /\ last.stepped /\ LastTag = "SetAuthority"
    /\ Len(PreCell) = WRITABLE_START_INDEX - 1
    /\ PreCell[1] = 0
    /\ last.acc.signer
    /\ last.result = Err("InvalidAccountData")


\* The last instruction applied once more to the accounts as it left them,
\* with the same account list.
LastAgain == process_instruction(data, lamports, last.acc, last.input, NoFill)

\* C21: after a successful Write, the same Write applied again by the same
\* signed owner succeeds and leaves every account's bytes, buffer length and
\* balance exactly as the first application left them.
C21_WriteIdempotent ==
    (last.stepped /\ LastTag = "Write" /\ last.result.ok)
        => /\ BySignedOwner
           /\ LastAgain.result = Ok("unit")
           /\ LastAgain.data = data
           /\ LastAgain.lamports = lamports

C21_Witness ==
    /\ last.stepped /\ LastTag = "Write" /\ last.result.ok
    /\ ToNat(LastIns.val.offset) = 1
    /\ Len(LastIns.val.data) = 1
    /\ Payload(Cell) # Payload(PreCell)
    /\ LastAgain.result.ok


\* The cell reads as Initialized now.
NowInitialized ==
    Len(Cell) >= WRITABLE_START_INDEX /\ Cell[1] = CURRENT_VERSION

\* C22: a step of any operation, successful or failed, on an Initialized cell
\* leaves it Initialized (at least 33 bytes, version byte CURRENT_VERSION); a
\* cell on which an Initialize has succeeded is Initialized; an Initialize
\* succeeds only on a cell that is not Initialized; and no cell ever sees a
\* second successful Initialize.
C22_InitializedForever ==
    /\ (last.stepped /\ PreInitialized) => NowInitialized
    /\ inits >= 1 => NowInitialized
    /\ (last.stepped /\ LastTag = "Initialize" /\ last.result.ok)
            => ~PreInitialized
    /\ inits <= 1

C22_Witness ==
    /\ inits = 1
    /\ last.stepped /\ LastTag = "CloseAccount" /\ last.result.ok
    /\ PreInitialized /\ NowInitialized
    /\ lamports["rec"] = ZeroBalance
    /\ \A a \in Accts, sg \in BOOLEAN :
          ~Following(Accounts2(a, sg), Initialize).result.ok


\* The sum of the balances, in the balance map l, of the distinct accounts a
\* CloseAccount involves: the record cell and the destination.  9 digits, never
\* wrapped; the cell's balance alone when the destination is the cell.
InvolvedBalance(l) ==
    IF last.acc.a2 = last.acc.a0
    THEN WideAdd(l[last.acc.a0], ZeroBalance, 0)
    ELSE WideAdd(l[last.acc.a0], l[last.acc.a2], 0)

\* C23: after a successful CloseAccount, whatever the accounts (the
\* destination may be the record cell itself), the balances of the distinct
\* accounts involved sum to what they summed to before, and no other account's
\* balance has changed.
C23_CloseConservesBalance ==
    (last.stepped /\ LastTag = "CloseAccount" /\ last.result.ok)
        => /\ InvolvedBalance(lamports) = InvolvedBalance(last.lamports)
           /\ \A a \in Accts \ {last.acc.a0, last.acc.a2} :
                 lamports[a] = last.lamports[a]

====
